---------------------------- MODULE Spec2Model ----------------------------
(***************************************************************************)
(* A model of genai_wealth_advisor.py: the five functions of the advisory  *)
(* pipeline (get_portfolio_allocation, explain_portfolio, calculate_sip,   *)
(* fetch_cagr, generate_pdf) and the Streamlit script that calls them.     *)
(*                                                                         *)
(* Two specifications share the module:                                    *)
(*   FnSpec  calls each function on inputs drawn from bounded sets and     *)
(*           records the call and its outcome in `call`;                   *)
(*   Spec    runs the script the way Streamlit does: every interaction     *)
(*           reruns it from the top, and st.button(...) is True only in    *)
(*           the run started by a click on that very button.               *)
(*                                                                         *)
(* Python floats are modelled in fixed point (see Scale and RootScale):   *)
(* a figure of the model approximates the one the code returns, while the  *)
(* sign of every quantity and whether a denominator is zero are the same   *)
(* as in the code for the inputs drawn here.                               *)
(***************************************************************************)
EXTENDS Integers, Sequences, FiniteSets, TLC

VARIABLES
    call,         \* FnSpec: the last function call, its arguments and outcome
    pc,           \* Spec: position of the running script, "idle" between runs
    clicked,      \* the widget whose interaction started the current run
    user,         \* st.session_state['user'] is set
    risk,         \* value of the "Risk Tolerance" selectbox
    shown,        \* the buttons the last (or current) run has put on the page
    market,       \* what the market-data collaborator answers, per ticker
    response,     \* what the text-completion collaborator answered, if asked
    allocation,   \* script variable `allocation`
    explanation,  \* script variable `explanation`
    sip,          \* script variable `sip`
    returns,      \* script variable `returns`, entries filled in source order
    table,        \* the rows of the st.dataframe of line 143
    error,        \* the uncaught exception that ended the run, "" if none
    pdf           \* the document at /mnt/data/wealth_report.pdf

appvars == <<pc, clicked, user, risk, shown, market, response, allocation,
             explanation, sip, returns, table, error, pdf>>
vars == <<call, pc, clicked, user, risk, shown, market, response, allocation,
          explanation, sip, returns, table, error, pdf>>

-----------------------------------------------------------------------------
(* Python values and call outcomes *)

None == <<>>
Some(v) == <<v>>

Return(v) == [kind |-> "return", val |-> v, exc |-> ""]
Raise(e) == [kind |-> "raise", val |-> None, exc |-> e]

\* A float result: an ordinary number n (in the unit its user states), or one
\* of the IEEE specials numpy produces instead of raising.
PyNone == [tag |-> "None", n |-> 0]
PyNum(n) == [tag |-> "float", n |-> n]
PyInf == [tag |-> "inf", n |-> 0]
PyNaN == [tag |-> "nan", n |-> 0]

Abs(n) == IF n < 0 THEN -n ELSE n

\* n/d rounded to the nearest integer, ties to even (Python's round), n >= 0, d > 0
RoundDiv(n, d) ==
    LET q == n \div d
        r == n % d
    IN  IF 2 * r < d THEN q
        ELSE IF 2 * r > d THEN q + 1
        ELSE IF q % 2 = 0 THEN q ELSE q + 1

-----------------------------------------------------------------------------
(* Portfolio Allocation Logic *)

RiskTiers == {"Low", "Medium", "High"}
Assets == {"Equity", "Debt", "Gold"}

\* What a caller can pass: the three tiers and values outside the enum.
RiskInputs == RiskTiers \cup {"", "low", "Extreme"}

\* the tier tests dropped: every risk gets the last branch
get_portfolio_allocation_untiered(r) == [Equity |-> 70, Debt |-> 20, Gold |-> 10]

get_portfolio_allocation(r) ==
    IF r = "Low" THEN [Equity |-> 30, Debt |-> 60, Gold |-> 10]
    ELSE IF r = "Medium" THEN [Equity |-> 50, Debt |-> 40, Gold |-> 10]
    ELSE [Equity |-> 70, Debt |-> 20, Gold |-> 10]

-----------------------------------------------------------------------------
(* SIP Calculator *)

\* Fixed-point unit of the modelled floats: a rate x is held as x * Scale.
\* With annual_return a whole percentage, monthly_rate = annual_return/100/12
\* is exact in this unit.
Scale == 12000

\* x * y of two values held in units of 1/Scale, to the nearest unit
MulFix(x, y) == (x * y + Scale \div 2) \div Scale

RECURSIVE PowFix(_, _)
\* (b/Scale) ** n in units of 1/Scale, n >= 0, by squaring
PowFix(b, n) ==
    IF n = 0 THEN Scale
    ELSE IF n % 2 = 1 THEN MulFix(PowFix(b, n - 1), b)
    ELSE LET h == PowFix(b, n \div 2) IN MulFix(h, h)

GoalAmounts == {1000, 250000, 1000000}
Horizons == {0, 1, 2, 10}
AnnualReturns == {-12, -5, 0, 6, 12, 15}

\* The result is in paise (hundredths), the unit round(sip, 2) keeps.
calculate_sip(goal_amount, years, annual_return) ==
    LET monthly_rate == (annual_return * Scale) \div (100 * 12)
        months == years * 12
        num == goal_amount * monthly_rate
        den == PowFix(Scale + monthly_rate, months) - Scale
        q == Abs(num) \div Abs(den)
        r == Abs(num) % Abs(den)
        mag == q * 100 + RoundDiv(r * 100, Abs(den))
    IN  IF den = 0 THEN Raise("ZeroDivisionError")
        ELSE Return(PyNum(IF (num < 0) # (den < 0) THEN -mag ELSE mag))

-----------------------------------------------------------------------------
(* Real-Time Return Estimates *)

\* What yf.download hands back: it raises, or it returns a frame with some
\* columns and a chronological list of rows.  closes[i] is the value of row i
\* in every price column the frame has.
DownloadError == [kind |-> "error", cols |-> {}, closes |-> <<>>]
Frame(cols, closes) == [kind |-> "frame", cols |-> cols, closes |-> closes]

\* pandas: DataFrame.empty is True when either axis has length 0
Empty(data) == data.cols = {} \/ data.closes = <<>>

\* Resolution of the modelled fifth root: (end/start) ** (1/years) is held as
\* the largest g with (g/RootScale) ** years <= end/start.
RootScale == 10

RECURSIVE Pow(_, _)
Pow(b, n) == IF n = 0 THEN 1 ELSE b * Pow(b, n - 1)

RECURSIVE RootSearch(_, _, _, _)
RootSearch(g, s, e, years) ==
    IF Pow(g + 1, years) * s > e * Pow(RootScale, years) THEN g
    ELSE RootSearch(g + 1, s, e, years)

\* numpy float64 arithmetic on start_price and end_price: division by zero and
\* a fractional power of a negative base give inf or nan, they do not raise.
\* A finite result is the CAGR in percent.
Cagr(start_price, end_price, years) ==
    IF start_price = 0
    THEN IF end_price = 0 THEN PyNaN ELSE PyInf
    ELSE IF (start_price < 0) # (end_price < 0) /\ end_price # 0
    THEN PyNaN
    ELSE PyNum((RootSearch(0, Abs(start_price), Abs(end_price), years)
                    - RootScale) * (100 \div RootScale))

\* default lookback of fetch_cagr(ticker, years=5)
LookbackYears == 5

fetch_cagr(data, years) ==
    IF data.kind = "error" THEN Raise("DownloadError")
    ELSE IF Empty(data) \/ "Adj Close" \notin data.cols THEN Return(PyNone)
    ELSE Return(Cagr(data.closes[1], data.closes[Len(data.closes)], years))

-----------------------------------------------------------------------------
(* GPT Explanation *)

\* What requests.post and response.json() can give: the post itself fails, or
\* a response arrives with a status and a body.  The body is not JSON, or it
\* is a JSON object of one of these shapes.
Bodies == {"not_json", "error_object", "no_choices", "empty_choices",
           "no_message", "no_content", "completion"}
Response(transport, status, body) ==
    [transport |-> transport, status |-> status, body |-> body]
Responses ==
    {Response("failed", 0, "not_json")}
    \cup {Response("ok", 200, b) : b \in Bodies}
    \cup {Response("ok", st, b) : st \in {429, 500}, b \in {"not_json", "error_object"}}

NarrativeText == "Advice"

\* lines 50-52: the status is never looked at
explain_portfolio(alloc, resp) ==
    IF resp.transport = "failed" THEN Raise("ConnectionError")
    ELSE IF resp.body = "not_json" THEN Raise("JSONDecodeError")
    ELSE IF resp.body \in {"error_object", "no_choices"} THEN Raise("KeyError")
    ELSE IF resp.body = "empty_choices" THEN Raise("IndexError")
    ELSE IF resp.body \in {"no_message", "no_content"} THEN Raise("KeyError")
    ELSE Return(NarrativeText)

-----------------------------------------------------------------------------
(* PDF Export *)

\* stands for the rupee sign U+20B9 of the f-strings
Rupee == "Rs"

Digits2(n) == IF n < 10 THEN "0" \o ToString(n) ELSE ToString(n)
Digits3(n) == IF n < 100 THEN "0" \o Digits2(n) ELSE ToString(n)

RECURSIVE FormatComma(_)
\* f"{n:,}" of an int n >= 0
FormatComma(n) ==
    IF n < 1000 THEN ToString(n)
    ELSE FormatComma(n \div 1000) \o "," \o Digits3(n % 1000)

\* f"{x}" of the float x = p/100, p >= 0: the shortest repr, at least one decimal
FormatFloat(p) ==
    ToString(p \div 100) \o "." \o
        (IF p % 10 = 0 THEN ToString((p % 100) \div 10) ELSE Digits2(p % 100))

\* dict iteration order of the allocation the script builds
AssetOrder == <<"Equity", "Debt", "Gold">>

Cell(txt) == [op |-> "cell", txt |-> txt]
MultiCell(txt) == [op |-> "multi_cell", txt |-> txt]

\* line 95
SipBlock(info) ==
    MultiCell("\nGoal: " \o Rupee \o ToString(info.amount) \o " in "
              \o ToString(info.years) \o " years.\nMonthly SIP Needed: "
              \o Rupee \o FormatFloat(info.sip))

\* the goal block forgotten
generate_pdf_no_goal(name, age, income, r, goal, alloc, expl, sip_info) ==
    <<Cell("Wealth Advisor Report"),
      Cell("Name: " \o name \o " | Age: " \o ToString(age) \o " | Income: "
           \o Rupee \o FormatComma(income)),
      Cell("Risk Tolerance: " \o r \o " | Goal: " \o goal),
      Cell("Portfolio Allocation:")>>
    \o [i \in 1..Len(AssetOrder) |->
          Cell(AssetOrder[i] \o ": " \o ToString(alloc[AssetOrder[i]]) \o "%")]
    \o <<MultiCell("Advisor's Explanation:\n" \o expl)>>

\* The text blocks written to the document, in order; sip_info is None or
\* Some(dict).  Fonts and line feeds carry no text and are left out.
generate_pdf(name, age, income, r, goal, alloc, expl, sip_info) ==
    <<Cell("Wealth Advisor Report"),
      Cell("Name: " \o name \o " | Age: " \o ToString(age) \o " | Income: "
           \o Rupee \o FormatComma(income)),
      Cell("Risk Tolerance: " \o r \o " | Goal: " \o goal),
      Cell("Portfolio Allocation:")>>
    \o [i \in 1..Len(AssetOrder) |->
          Cell(AssetOrder[i] \o ": " \o ToString(alloc[AssetOrder[i]]) \o "%")]
    \o <<MultiCell("Advisor's Explanation:\n" \o expl)>>
    \o (IF sip_info # None THEN <<SipBlock(sip_info[1])>> ELSE <<>>)

-----------------------------------------------------------------------------
(* FnSpec: each function called on its own *)

\* longest price series drawn for fetch_cagr
MaxBars == 2

Prices == {-2, 0, 1, 2, 4}
ColumnSets == {{}, {"Close"}, {"Close", "Adj Close"}}
Series == UNION {[1..n -> Prices] : n \in 0..MaxBars}
Downloads == {DownloadError} \cup {Frame(c, s) : c \in ColumnSets, s \in Series}

Ages == {18, 30}
Incomes == {0, 50000, 1234567}
Goals == {"", "house"}
Explanations == {NarrativeText, "Line one\nLine two"}
SipInfos == [amount : {1000, 1000000}, years : {1, 10}, sip : {0, 8150, 434709}]
SipArgs == {None} \cup {Some(i) : i \in SipInfos}

NoCall == [fn |-> "", args |-> <<>>, out |-> Return(None)]

\* Each call starts from NoCall (one call per behaviour) and leaves the
\* script's state alone.
CallAllocation ==
    /\ call = NoCall
    /\ \E r \in RiskInputs :
         call' = [fn |-> "get_portfolio_allocation", args |-> <<r>>,
                  out |-> Return(get_portfolio_allocation(r))]
    /\ UNCHANGED appvars

CallSip ==
    /\ call = NoCall
    /\ \E g \in GoalAmounts, y \in Horizons, a \in AnnualReturns :
         call' = [fn |-> "calculate_sip", args |-> <<g, y, a>>,
                  out |-> calculate_sip(g, y, a)]
    /\ UNCHANGED appvars

CallFetchCagr ==
    /\ call = NoCall
    /\ \E d \in Downloads :
         call' = [fn |-> "fetch_cagr", args |-> <<d>>,
                  out |-> fetch_cagr(d, LookbackYears)]
    /\ UNCHANGED appvars

CallExplain ==
    /\ call = NoCall
    /\ \E r \in RiskTiers, resp \in Responses :
         call' = [fn |-> "explain_portfolio", args |-> <<r, resp>>,
                  out |-> explain_portfolio(get_portfolio_allocation(r), resp)]
    /\ UNCHANGED appvars

CallGeneratePdf ==
    /\ call = NoCall
    /\ \E age \in Ages, income \in Incomes, r \in RiskTiers, goal \in Goals,
          expl \in Explanations, info \in SipArgs :
         call' = [fn |-> "generate_pdf",
                  args |-> <<age, income, r, goal, expl, info>>,
                  out |-> Return(generate_pdf("User", age, income, r, goal,
                                 get_portfolio_allocation(r), expl, info))]
    /\ UNCHANGED appvars

FnNext ==
    \/ CallAllocation
    \/ CallSip
    \/ CallFetchCagr
    \/ CallExplain
    \/ CallGeneratePdf

-----------------------------------------------------------------------------
(* Main Streamlit App *)

\* defaults of the widgets of lines 109-112 and 130-132
DefaultAge == 30
DefaultIncome == 50000
DefaultGoal == ""
DefaultGoalAmount == 1000000
DefaultGoalYears == 10
DefaultExpectedReturn == 12

FullColumns == {"Close", "Adj Close"}

\* The answers of the market-data collaborator the script is run against.
MarketAnswers ==
    {DownloadError,
     Frame(FullColumns, <<>>),
     Frame({"Close"}, <<1, 2>>),
     Frame(FullColumns, <<0, 2>>),
     Frame(FullColumns, <<1, 2>>),
     Frame(FullColumns, <<1, 4>>)}

NoReturns == [a \in {} |-> PyNone]

\* state after the first run of the script: nobody is logged in, st.stop()
Init ==
    /\ call = NoCall
    /\ pc = "idle"
    /\ clicked = ""
    /\ user = FALSE
    /\ risk = "Low"
    /\ shown = {"Login"}
    /\ market = [a \in Assets |-> Frame(FullColumns, <<>>)]
    /\ response = None
    /\ allocation = None
    /\ explanation = None
    /\ sip = None
    /\ returns = NoReturns
    /\ table = None
    /\ error = ""
    /\ pdf = None

\* An interaction with widget w reruns the script from the top in a fresh
\* namespace; the file of an earlier render stays on disk.
StartRun(w) ==
    /\ pc = "idle"
    /\ pc' = "login"
    /\ clicked' = w
    /\ shown' = {}
    /\ response' = None
    /\ allocation' = None
    /\ explanation' = None
    /\ sip' = None
    /\ returns' = NoReturns
    /\ table' = None
    /\ error' = ""
    /\ UNCHANGED <<call, user, pdf>>

ClickLogin ==
    /\ "Login" \in shown
    /\ StartRun("Login")
    /\ UNCHANGED <<risk, market>>

SelectRisk ==
    /\ "Generate" \in shown
    /\ \E r \in RiskTiers \ {risk} : risk' = r
    /\ StartRun("")
    /\ UNCHANGED market

ClickGenerate ==
    /\ "Generate" \in shown
    /\ StartRun("Generate")
    /\ market' \in [Assets -> MarketAnswers]
    /\ UNCHANGED risk

ClickPdf ==
    /\ "GeneratePDF" \in shown
    /\ StartRun("GeneratePDF")
    /\ UNCHANGED <<risk, market>>

ClickAsk ==
    /\ "AskGPT" \in shown
    /\ StartRun("AskGPT")
    /\ UNCHANGED <<risk, market>>

\* lines 103-105
LoginGate ==
    /\ pc = "login"
    /\ user' = (user \/ clicked = "Login")
    /\ shown' = shown \cup {"Login"}
    /\ pc' = IF user' THEN "profile" ELSE "idle"
    /\ UNCHANGED <<call, clicked, risk, market, response, allocation,
                   explanation, sip, returns, table, error, pdf>>

\* lines 108-123
GeneratePortfolio ==
    /\ pc = "profile"
    /\ shown' = shown \cup {"Generate"}
    /\ IF clicked = "Generate"
       THEN /\ allocation' = Some(get_portfolio_allocation(risk))
            /\ pc' = "explain"
       ELSE /\ pc' = "idle"
            /\ UNCHANGED allocation
    /\ UNCHANGED <<call, clicked, user, risk, market, response, explanation,
                   sip, returns, table, error, pdf>>

\* lines 125-127
Explain ==
    /\ pc = "explain"
    /\ \E resp \in Responses :
         LET out == explain_portfolio(allocation[1], resp)
         IN  /\ response' = Some(resp)
             /\ IF out.kind = "raise"
                THEN /\ error' = out.exc
                     /\ pc' = "idle"
                     /\ UNCHANGED explanation
                ELSE /\ explanation' = Some(out.val)
                     /\ pc' = "sip"
                     /\ UNCHANGED error
    /\ UNCHANGED <<call, clicked, user, risk, shown, market, allocation, sip,
                   returns, table, pdf>>

\* lines 129-135
SipCalculator ==
    /\ pc = "sip"
    /\ LET out == calculate_sip(DefaultGoalAmount, DefaultGoalYears,
                                DefaultExpectedReturn)
       IN  IF out.kind = "raise"
           THEN /\ error' = out.exc
                /\ pc' = "idle"
                /\ UNCHANGED sip
           ELSE /\ sip' = Some(out.val.n)
                /\ pc' = "fetch"
                /\ UNCHANGED error
    /\ UNCHANGED <<call, clicked, user, risk, shown, market, response,
                   allocation, explanation, returns, table, pdf>>

\* lines 138-142, one entry of the dict literal per step, in source order
ReturnEstimates ==
    /\ pc = "fetch"
    /\ LET a == AssetOrder[Cardinality(DOMAIN returns) + 1]
           out == fetch_cagr(market[a], LookbackYears)
       IN  IF out.kind = "raise"
           THEN /\ error' = out.exc
                /\ pc' = "idle"
                /\ UNCHANGED returns
           ELSE /\ returns' = (a :> out.val) @@ returns
                /\ pc' = IF Cardinality(DOMAIN returns) = 2 THEN "table"
                         ELSE "fetch"
                /\ UNCHANGED error
    /\ UNCHANGED <<call, clicked, user, risk, shown, market, response,
                   allocation, explanation, sip, table, pdf>>

\* line 143
ReturnsTable ==
    /\ pc = "table"
    /\ table' = Some(returns)
    /\ pc' = "tail"
    /\ UNCHANGED <<call, clicked, user, risk, shown, market, response,
                   allocation, explanation, sip, returns, error, pdf>>

\* lines 145-161: the two buttons nested in the "Generate Portfolio" branch
ReportAndQuestion ==
    /\ pc = "tail"
    /\ shown' = shown \cup {"GeneratePDF", "AskGPT"}
    /\ pdf' = IF clicked = "GeneratePDF"
              THEN Some(generate_pdf("User", DefaultAge, DefaultIncome, risk,
                            DefaultGoal, allocation[1], explanation[1],
                            Some([amount |-> DefaultGoalAmount,
                                  years |-> DefaultGoalYears,
                                  sip |-> sip[1]])))
              ELSE pdf
    /\ IF clicked = "AskGPT"
       THEN \E resp \in Responses :
              /\ response' = Some(resp)
              /\ error' = explain_portfolio(allocation[1], resp).exc
       ELSE UNCHANGED <<response, error>>
    /\ pc' = "idle"
    /\ UNCHANGED <<call, clicked, user, risk, market, allocation, explanation,
                   sip, returns, table>>

Next ==
    \/ ClickLogin
    \/ SelectRisk
    \/ ClickGenerate
    \/ ClickPdf
    \/ ClickAsk
    \/ LoginGate
    \/ GeneratePortfolio
    \/ Explain
    \/ SipCalculator
    \/ ReturnEstimates
    \/ ReturnsTable
    \/ ReportAndQuestion

Spec == Init /\ [][Next]_vars

FnSpec == Init /\ [][FnNext]_vars

-----------------------------------------------------------------------------
(* Properties of the functions, checked under FnSpec *)

Called(fn) == call.fn = fn

\* C1: for every risk tier Low, Medium, High, get_portfolio_allocation
\* returns a mapping with exactly the keys Equity, Debt, Gold, whose values
\* are the non-negative integers of the table 30/60/10, 50/40/10, 70/20/10
\* and sum to 100.
C1_AllocationTable ==
    Called("get_portfolio_allocation") /\ call.args[1] \in RiskTiers =>
        LET r == call.args[1]
            a == call.out.val
        IN  /\ call.out.kind = "return"
            /\ DOMAIN a = Assets
            /\ \A k \in Assets : a[k] \in Nat
            /\ a["Equity"] + a["Debt"] + a["Gold"] = 100
            /\ r = "Low" => a["Equity"] = 30 /\ a["Debt"] = 60 /\ a["Gold"] = 10
            /\ r = "Medium" => a["Equity"] = 50 /\ a["Debt"] = 40 /\ a["Gold"] = 10
            /\ r = "High" => a["Equity"] = 70 /\ a["Debt"] = 20 /\ a["Gold"] = 10

C1_Witness ==
    /\ Called("get_portfolio_allocation")
    /\ call.args[1] = "Low"
    /\ call.out.val["Debt"] = 60

\* C2: get_portfolio_allocation called with a risk that is not Low, Medium
\* or High fails with InvalidArgument and returns no allocation.
C2_InvalidArgument ==
    Called("get_portfolio_allocation") /\ call.args[1] \notin RiskTiers =>
        call.out.kind = "raise" /\ call.out.exc = "InvalidArgument"

\* C3: calculate_sip fails for every goal amount and horizon when the annual
\* return is zero or negative; it never returns a contribution figure.  (Any
\* raised error is accepted here as the DegenerateRate failure.)
C3_DegenerateRate ==
    Called("calculate_sip") /\ call.args[3] <= 0 => call.out.kind = "raise"

Unavailable == Return(PyNone)

\* C4: fetch_cagr returns the unavailable result, and raises nothing, when
\* the series is empty, when it lacks the closing-price field, and when the
\* fetch itself fails.
C4_NoDataUnavailable ==
    Called("fetch_cagr")
    /\ (\/ call.args[1].kind = "error"
        \/ Empty(call.args[1])
        \/ "Adj Close" \notin call.args[1].cols)
    => call.out = Unavailable

\* C5: fetch_cagr on a non-empty series whose first closing price is zero or
\* negative returns the unavailable result: no error, no Inf, no NaN, no
\* number.
C5_BadStartUnavailable ==
    Called("fetch_cagr")
    /\ call.args[1].kind = "frame"
    /\ ~Empty(call.args[1])
    /\ "Adj Close" \in call.args[1].cols
    /\ call.args[1].closes[1] <= 0
    => call.out = Unavailable

GoalBlocks == {SipBlock(i) : i \in SipInfos}

-----------------------------------------------------------------------------
(* Properties of the script, checked under Spec *)

\* a run started by "Generate Portfolio" is over
GenerateRunOver == pc = "idle" /\ clicked = "Generate"

\* the run was ended by an uncaught exception
Crashed == error # ""

\* the collaborator answered with status 200 and a payload without the
\* completion field
Malformed(resp) ==
    /\ resp.transport = "ok"
    /\ resp.status = 200
    /\ resp.body \in {"no_choices", "empty_choices", "no_message", "no_content"}

\* the data of a ticker for which no CAGR can be given
FailingData(d) ==
    \/ d.kind = "error"
    \/ Empty(d)
    \/ "Adj Close" \notin d.cols
    \/ d.closes[1] <= 0

\* C6: when exactly one of the three estimates fails, the table still has
\* the three rows keyed by asset class: the failing one unavailable, the two
\* others with their own CAGR.
C6_OneFailureIsolated ==
    GenerateRunOver /\ sip # None
    /\ Cardinality({a \in Assets : FailingData(market[a])}) = 1
    => /\ table # None
       /\ DOMAIN table[1] = Assets
       /\ \A a \in Assets :
            table[1][a] = IF FailingData(market[a]) THEN PyNone
                          ELSE fetch_cagr(market[a], LookbackYears).val

\* C7: a completion payload without the expected field does not crash the
\* request; the failure is reported as its own kind and the allocation
\* already computed stays as it was.
C7_MalformedHandled ==
    GenerateRunOver /\ response # None /\ Malformed(response[1])
    => /\ ~Crashed
       /\ allocation = Some(get_portfolio_allocation(risk))

\* C8: in every run where narrative generation fails, the allocation has
\* been computed and the SIP figure is computed all the same.
C8_NarrativeFailureKeepsSip ==
    GenerateRunOver /\ response # None
    /\ explain_portfolio(allocation[1], response[1]).kind = "raise"
    => allocation # None /\ sip # None

\* C10: once the narrative is ready the report can be asked for, also when a
\* return estimate failed, and a run started by "Generate PDF Report" ends
\* with the report rendered.
C10_ReportAfterNarrative ==
    /\ GenerateRunOver /\ explanation # None => "GeneratePDF" \in shown
    /\ pc = "idle" /\ clicked = "GeneratePDF" => pdf # None

=============================================================================
